---- MODULE Spec2Model ----
(***************************************************************************)
(* Website analyzer (website_analyzer.py) and its HTTP boundary (api.py).  *)
(*                                                                         *)
(* Text is modelled as a sequence of one-character strings, so that        *)
(* startswith, lower and substring containment are computed on characters. *)
(* A Python dict is a function; the empty dict is the empty function.      *)
(***************************************************************************)
EXTENDS Integers, Sequences, FiniteSets, TLC

VARIABLES
    input,      \* the argument given to WebsiteAnalyzer(url) / the request body
    url,        \* self.url
    html,       \* self.html: None, or the raw markup
    soup,       \* self.soup: None, or what the parsed document answers
    results,    \* self.results
    pc,         \* position in the operation under way
    calls,      \* calls made so far of the method under study
    response    \* what the HTTP handler returned

vars == <<input, url, html, soup, results, pc, calls, response>>

None == "None"

\* self.html and self.soup before the fetch: None, held as the empty function
NoDocument == <<>>
IsNoDocument(d) == DOMAIN d = {}

(***************************************************************************)
(* Bounds of the model.                                                    *)
(***************************************************************************)
MaxFragments == 2      \* fragments in a markup text
MaxUrlParts == 3       \* fragments in an input URL
MaxH1 == 2             \* h1 headings in a document
MaxImages == 3         \* img elements in a document
MaxLdJson == 1         \* JSON-LD blocks in a document
MaxCalls == 2          \* calls of one method on one analyzer

(***************************************************************************)
(* Text helpers.                                                           *)
(***************************************************************************)
RECURSIVE Concat(_)
Concat(parts) ==
    IF parts = <<>> THEN <<>> ELSE Head(parts) \o Concat(Tail(parts))

\* str.startswith(prefix)
StartsWith(s, prefix) ==
    /\ Len(prefix) <= Len(s)
    /\ SubSeq(s, 1, Len(prefix)) = prefix

\* `sub in s`
IsSubstring(sub, s) ==
    \E i \in 1..(Len(s) - Len(sub) + 1) : SubSeq(s, i, i + Len(sub) - 1) = sub

LowerChar(c) ==
    CASE c = "A" -> "a" [] c = "C" -> "c" [] c = "D" -> "d" [] c = "E" -> "e"
      [] c = "G" -> "g" [] c = "I" -> "i" [] c = "M" -> "m" [] c = "O" -> "o"
      [] c = "P" -> "p" [] c = "R" -> "r" [] c = "S" -> "s" [] c = "T" -> "t"
      [] c = "V" -> "v" [] c = "X" -> "x" [] c = "Y" -> "y" [] c = "F" -> "f"
      [] c = "H" -> "h" [] c = "K" -> "k"
      [] OTHER -> c

\* str.lower()
Lower(s) == [i \in 1..Len(s) |-> LowerChar(s[i])]


(***************************************************************************)
(* WebsiteAnalyzer.__init__                                                *)
(***************************************************************************)
HttpPrefix == <<"h","t","t","p">>
HttpsScheme == <<"h","t","t","p","s",":","/","/">>

\* self.url = url if url.startswith('http') else f'https://{url}'
NormalizeUrl(u) == IF StartsWith(u, HttpPrefix) THEN u ELSE HttpsScheme \o u

\* self.results as built by the constructor
InitialResults(u) ==
    [url |-> u,
     platform |-> None,
     seo |-> <<>>,
     technical |-> <<>>,
     tracking |-> <<>>,
     meta_ads |-> <<>>,
     scores |-> <<>>,
     issues |-> <<>>,
     opportunities |-> <<>>,
     error |-> None]

(***************************************************************************)
(* WebsiteAnalyzer.detect_platform                                         *)
(***************************************************************************)
\* the platforms dict, in insertion order; display is platform.capitalize()
platforms == <<
    [name |-> "merchantpro", display |-> "Merchantpro",
     signatures |-> <<<<"m","e","r","c","h","a","n","t","p","r","o">>,
                     <<"m","p","-">>>>],
    [name |-> "gomag", display |-> "Gomag",
     signatures |-> <<<<"g","o","m","a","g">>,
                     <<"g","o","m","a","g",".","r","o">>>>],
    [name |-> "shopify", display |-> "Shopify",
     signatures |-> <<<<"s","h","o","p","i","f","y">>,
                     <<"c","d","n",".","s","h","o","p","i","f","y">>>>],
    [name |-> "woocommerce", display |-> "Woocommerce",
     signatures |-> <<<<"w","o","o","c","o","m","m","e","r","c","e">>,
                     <<"w","p","-","c","o","n","t","e","n","t","/","p","l","u","g","i","n","s","/","w","o","o","c","o","m","m","e","r","c","e">>>>],
    [name |-> "magento", display |-> "Magento",
     signatures |-> <<<<"m","a","g","e","n","t","o">>,
                     <<"m","a","g","e">>>>],
    [name |-> "prestashop", display |-> "Prestashop",
     signatures |-> <<<<"p","r","e","s","t","a","s","h","o","p">>,
                     <<"p","r","e","s","t","a">>>>],
    [name |-> "opencart", display |-> "Opencart",
     signatures |-> <<<<"o","p","e","n","c","a","r","t">>>>],
    [name |-> "vtex", display |-> "Vtex",
     signatures |-> <<<<"v","t","e","x">>>>] >>

\* for sig in signatures: if sig in html_lower
RECURSIVE AnySignature(_, _, _)
AnySignature(signatures, j, html_lower) ==
    IF j > Len(signatures) THEN FALSE
    ELSE IF IsSubstring(signatures[j], html_lower) THEN TRUE
    ELSE AnySignature(signatures, j + 1, html_lower)

\* for platform, signatures in platforms.items(): ... return at the first hit
RECURSIVE ScanPlatformsReversed(_, _)
ScanPlatformsReversed(i, html_lower) ==
    IF i < 1 THEN "Unknown"
    ELSE IF AnySignature(platforms[i].signatures, 1, html_lower)
         THEN platforms[i].display
         ELSE ScanPlatformsReversed(i - 1, html_lower)

ScanPlatformsBackward(i, html_lower) == ScanPlatformsReversed(Len(platforms), html_lower)

RECURSIVE ScanPlatforms(_, _)
ScanPlatforms(i, html_lower) ==
    IF i > Len(platforms) THEN "Unknown"
    ELSE IF AnySignature(platforms[i].signatures, 1, html_lower)
         THEN platforms[i].display
         ELSE ScanPlatforms(i + 1, html_lower)

\* html_lower = self.html.lower() if self.html else ''
HtmlLower(h) == IF IsNoDocument(h) THEN <<>> ELSE Lower(h.text)

detect_platform(res, h) ==
    [res EXCEPT !.platform = ScanPlatforms(1, HtmlLower(h))]

(***************************************************************************)
(* Issues and category scores.                                             *)
(***************************************************************************)
Issue(type, category, title) ==
    [type |-> type, category |-> category, title |-> title]

\* issues.append(x) when the rule fires
AppendIf(issues, cond, x) == IF cond THEN Append(issues, x) ELSE issues

\* for issue in issues: if issue['category'] == category: score -= ...
RECURSIVE Penalties(_, _, _, _)
Penalties(issues, category, perError, perWarning) ==
    IF issues = <<>> THEN 0
    ELSE (IF Head(issues).category = category
          THEN (IF Head(issues).type = "error" THEN perError ELSE perWarning)
          ELSE 0)
         + Penalties(Tail(issues), category, perError, perWarning)

Max(a, b) == IF a >= b THEN a ELSE b
Min(a, b) == IF a <= b THEN a ELSE b

\* max(0, min(100, score))
Clamp(score) == Max(0, Min(100, score))

\* self.results['scores'][k] = v
SetScore(scores, k, v) == (k :> v) @@ scores

\* round(x * 100) for the ratio x = num / den, as Python rounds a float:
\* to the nearest integer, a tie going to the even one
RoundPercent(num, den) ==
    LET q == (100 * num) \div den
        r == (100 * num) % den
    IN  IF 2 * r < den THEN q
        ELSE IF 2 * r > den THEN q + 1
        ELSE IF q % 2 = 0 THEN q ELSE q + 1


(***************************************************************************)
(* WebsiteAnalyzer.analyze_seo                                             *)
(*                                                                         *)
(* A parsed document (soup) is the record of what its queries answer:      *)
(*   title              Absent (no title tag) or the length of the         *)
(*                      stripped title text                                *)
(*   meta_description   Absent (no tag, or an empty content) or the length *)
(*                      of the stripped content                            *)
(*   h1_count, total_images, images_without_alt, ld_json_count  counts     *)
(*   canonical, og_title, og_description, og_image, viewport    presence   *)
(*   external_scripts   script tags with an absolute src on another host   *)
(***************************************************************************)
Absent == -1
TitleMinLength == 30
TitleMaxLength == 60
MetaDescriptionMinLength == 120
AltErrorPercent == 50
SeoErrorPenalty == 15
SeoWarningPenalty == 8

\* seo['title_length'] = len(seo['title']) if seo['title'] else 0
TitleLength(sp) == IF sp.title = Absent THEN 0 ELSE sp.title

\* seo['meta_description_length']
MetaDescriptionLength(sp) ==
    IF sp.meta_description = Absent THEN 0 ELSE sp.meta_description

\* the title rule: if not seo['title'] / elif < 30 / elif > 60
TitleIssues(sp) ==
    IF TitleLength(sp) = 0
    THEN <<Issue("error", "seo", "Title tag lipsa")>>
    ELSE IF TitleLength(sp) < TitleMinLength
    THEN <<Issue("warning", "seo", "Title tag prea scurt")>>
    ELSE IF TitleLength(sp) > TitleMaxLength
    THEN <<Issue("warning", "seo", "Title tag prea lung")>>
    ELSE <<>>

\* the meta description rule
MetaDescriptionIssues(sp) ==
    IF MetaDescriptionLength(sp) = 0
    THEN <<Issue("error", "seo", "Meta description lipsa")>>
    ELSE IF MetaDescriptionLength(sp) < MetaDescriptionMinLength
    THEN <<Issue("warning", "seo", "Meta description prea scurta")>>
    ELSE <<>>

\* the H1 rule
H1Issues(sp) ==
    IF sp.h1_count = 0
    THEN <<Issue("error", "seo", "H1 tag lipsa")>>
    ELSE IF sp.h1_count > 1
    THEN <<Issue("warning", "seo", "Multiple H1 tags")>>
    ELSE <<>>

\* the images rule: pct = round(without / max(total, 1) * 100)
ImageIssues(sp) ==
    IF sp.images_without_alt > 0
    THEN LET pct == RoundPercent(sp.images_without_alt, Max(sp.total_images, 1))
         IN  <<Issue(IF pct < AltErrorPercent THEN "warning" ELSE "error",
                     "seo", "imagini fara ALT")>>
    ELSE <<>>

\* missing_og = [k for k, v in seo['og_tags'].items() if not v]
MissingOg(sp) ==
    (IF sp.og_title THEN <<>> ELSE <<"title">>)
    \o (IF sp.og_description THEN <<>> ELSE <<"description">>)
    \o (IF sp.og_image THEN <<>> ELSE <<"image">>)

\* the issues list analyze_seo builds, rule after rule
SeoIssues(sp) ==
    LET i1 == TitleIssues(sp)
        i2 == i1 \o MetaDescriptionIssues(sp)
        i3 == i2 \o H1Issues(sp)
        i4 == i3 \o ImageIssues(sp)
        i5 == AppendIf(i4, ~sp.canonical,
                       Issue("warning", "seo", "Canonical URL lipsa"))
        i6 == AppendIf(i5, MissingOg(sp) # <<>>,
                       Issue("warning", "seo", "Open Graph tags incomplete"))
        i7 == AppendIf(i6, ~(sp.ld_json_count > 0),
                       Issue("warning", "seo", "Structured data (Schema.org) lipsa"))
    IN  i7

\* the findings kept in self.results['seo']
SeoFindings(sp) ==
    [title_length |-> TitleLength(sp),
     meta_description_length |-> MetaDescriptionLength(sp),
     h1_count |-> sp.h1_count,
     total_images |-> sp.total_images,
     images_without_alt |-> sp.images_without_alt,
     canonical |-> sp.canonical,
     missing_og |-> MissingOg(sp),
     structured_data_count |-> sp.ld_json_count]

\* score = 100; minus 15 per error, 8 per warning; clamped
SeoScoreFlatPenalty(issues) ==
    Clamp(100 - Penalties(issues, "seo", SeoErrorPenalty, SeoErrorPenalty))

SeoScore(issues) ==
    Clamp(100 - Penalties(issues, "seo", SeoErrorPenalty, SeoWarningPenalty))

analyze_seo(res, sp) ==
    LET issues == SeoIssues(sp)
    IN  [res EXCEPT !.seo = SeoFindings(sp),
                    !.issues = res.issues \o issues,
                    !.scores = SetScore(res.scores, "seo", SeoScore(issues))]


(***************************************************************************)
(* WebsiteAnalyzer.analyze_tracking                                        *)
(*                                                                         *)
(* The raw markup (html) is the record of its text and of what the fixed   *)
(* patterns find in it:                                                    *)
(*   text                          the characters of the markup            *)
(*   gtm, ga4, google_ads, facebook_pixel, tiktok_pixel                    *)
(*                                 re.findall found a match                *)
(*   fb_events                     the named events found quoted           *)
(***************************************************************************)
FbEventNames ==
    <<"Purchase", "AddToCart", "ViewContent", "InitiateCheckout", "AddPaymentInfo">>
FbMinEvents == 3
TrackingErrorPenalty == 18
TrackingWarningPenalty == 10

EnhancedConversion == <<"e","n","h","a","n","c","e","d","_","c","o","n","v","e","r","s","i","o","n">>
UserData == <<"u","s","e","r","_","d","a","t","a">>

\* for event in [...]: if found: fb_events.append(event)
FbEvents(h) ==
    SelectSeq(FbEventNames, LAMBDA e : e \in h.fb_events)

\* the Facebook Pixel rule: error without pixel, warning below 3 events
FacebookIssuesAtMost(h) ==
    IF ~h.facebook_pixel
    THEN <<Issue("error", "tracking", "Facebook Pixel nedetectat")>>
    ELSE IF Len(FbEvents(h)) <= FbMinEvents
    THEN <<Issue("warning", "tracking", "Facebook Pixel incomplet configurat")>>
    ELSE <<>>

FacebookIssues(h) ==
    IF ~h.facebook_pixel
    THEN <<Issue("error", "tracking", "Facebook Pixel nedetectat")>>
    ELSE IF Len(FbEvents(h)) < FbMinEvents
    THEN <<Issue("warning", "tracking", "Facebook Pixel incomplet configurat")>>
    ELSE <<>>

\* the issues list analyze_tracking builds, rule after rule; here with a
\* warning for a missing TikTok pixel as well
TrackingIssuesWithTikTok(h) ==
    LET i1 == AppendIf(<<>>, ~h.gtm,
                       Issue("error", "tracking", "Google Tag Manager nedetectat"))
        i2 == AppendIf(i1, ~h.ga4,
                       Issue("error", "tracking", "Google Analytics 4 nedetectat"))
        i3 == AppendIf(i2, ~h.google_ads,
                       Issue("error", "tracking", "Google Ads Conversion Tag absent"))
        i4 == i3 \o FacebookIssues(h)
    IN  AppendIf(i4, ~h.tiktok_pixel,
                 Issue("warning", "tracking", "TikTok Pixel nedetectat"))

TrackingIssues(h) ==
    LET i1 == AppendIf(<<>>, ~h.gtm,
                       Issue("error", "tracking", "Google Tag Manager nedetectat"))
        i2 == AppendIf(i1, ~h.ga4,
                       Issue("error", "tracking", "Google Analytics 4 nedetectat"))
        i3 == AppendIf(i2, ~h.google_ads,
                       Issue("error", "tracking", "Google Ads Conversion Tag absent"))
    IN  i3 \o FacebookIssues(h)

\* 'enhanced_conversion' in html.lower() or 'user_data' in html.lower()
EnhancedConversions(h) ==
    \/ IsSubstring(EnhancedConversion, Lower(h.text))
    \/ IsSubstring(UserData, Lower(h.text))

\* the findings kept in self.results['tracking']
TrackingFindings(h) ==
    [gtm |-> [detected |-> h.gtm],
     ga4 |-> [detected |-> h.ga4],
     google_ads |-> [detected |-> h.google_ads],
     facebook_pixel |-> [detected |-> h.facebook_pixel],
     facebook_events |-> FbEvents(h),
     tiktok_pixel |-> [detected |-> h.tiktok_pixel],
     enhanced_conversions |-> EnhancedConversions(h)]

\* score = 100; minus 18 per error, 10 per warning; clamped.  Here an error
\* costs 30, so that four of them pass below zero
TrackingScoreSteep(issues) ==
    Clamp(100 - Penalties(issues, "tracking", 30, TrackingWarningPenalty))

TrackingScore(issues) ==
    Clamp(100 - Penalties(issues, "tracking",
                          TrackingErrorPenalty, TrackingWarningPenalty))

\* the tracking issues put in front of the issues already recorded
analyze_tracking_prepending(res, h) ==
    LET issues == TrackingIssues(h)
    IN  [res EXCEPT !.tracking = TrackingFindings(h),
                    !.issues = issues \o res.issues,
                    !.scores = SetScore(res.scores, "tracking", TrackingScore(issues))]

analyze_tracking(res, h) ==
    LET issues == TrackingIssues(h)
    IN  [res EXCEPT !.tracking = TrackingFindings(h),
                    !.issues = res.issues \o issues,
                    !.scores = SetScore(res.scores, "tracking", TrackingScore(issues))]

(***************************************************************************)
(* WebsiteAnalyzer.analyze_technical                                       *)
(***************************************************************************)
MaxExternalScripts == 15
TechnicalErrorPenalty == 15
TechnicalWarningPenalty == 8

HttpsPrefix == <<"h","t","t","p","s">>

\* cookie_patterns = ['cookie', 'gdpr', 'consent', 'privacy']
cookie_patterns ==
    << <<"c","o","o","k","i","e">>, <<"g","d","p","r">>,
       <<"c","o","n","s","e","n","t">>, <<"p","r","i","v","a","c","y">> >>

\* any(p in self.html.lower() for p in cookie_patterns)
HasCookieConsent(h) ==
    \E j \in 1..Len(cookie_patterns) : IsSubstring(cookie_patterns[j], Lower(h.text))

\* the issues list analyze_technical builds, rule after rule
TechnicalIssues(sp, h, u) ==
    LET i1 == AppendIf(<<>>, ~sp.viewport,
                       Issue("error", "technical", "Viewport meta tag lipsa"))
        i2 == AppendIf(i1, ~StartsWith(u, HttpsPrefix),
                       Issue("error", "technical", "Site-ul nu foloseste HTTPS"))
        i3 == AppendIf(i2, sp.external_scripts > MaxExternalScripts,
                       Issue("warning", "technical", "Multe scripturi externe"))
        i4 == AppendIf(i3, ~HasCookieConsent(h),
                       Issue("warning", "technical", "Cookie consent nedetectat"))
    IN  i4

\* the findings kept in self.results['technical']
TechnicalFindings(sp, h, u) ==
    [mobile_viewport |-> sp.viewport,
     https |-> StartsWith(u, HttpsPrefix),
     external_scripts |-> sp.external_scripts,
     cookie_consent |-> HasCookieConsent(h)]

TechnicalScore(issues) ==
    Clamp(100 - Penalties(issues, "technical",
                          TechnicalErrorPenalty, TechnicalWarningPenalty))

analyze_technical(res, sp, h, u) ==
    LET issues == TechnicalIssues(sp, h, u)
    IN  [res EXCEPT !.technical = TechnicalFindings(sp, h, u),
                    !.issues = res.issues \o issues,
                    !.scores = SetScore(res.scores, "technical", TechnicalScore(issues))]

(***************************************************************************)
(* WebsiteAnalyzer.check_meta_ads_library                                  *)
(***************************************************************************)
MetaAdsScoreWithPixel == 70
MetaAdsScoreWithoutPixel == 40

\* self.results.get('tracking', {}).get('facebook_pixel', {}).get('detected', False);
\* here a TikTok pixel counts as well
HasAnyPixel(res) ==
    IF "facebook_pixel" \in DOMAIN res.tracking
    THEN res.tracking.facebook_pixel.detected \/ res.tracking.tiktok_pixel.detected
    ELSE FALSE

HasFbPixel(res) ==
    IF "facebook_pixel" \in DOMAIN res.tracking
    THEN res.tracking.facebook_pixel.detected
    ELSE FALSE

Opportunity(category, title) == [category |-> category, title |-> title]

\* the issues list assigned instead of extended
check_meta_ads_library_assigning(res) ==
    LET has_fb_pixel == HasFbPixel(res)
        issues == IF has_fb_pixel THEN <<>>
                  ELSE <<Issue("warning", "meta_ads", "Prezenta pe Meta Ads necunoscuta")>>
    IN  [res EXCEPT
           !.meta_ads = [checked |-> TRUE,
                         active_ads |-> IF has_fb_pixel THEN "detected" ELSE "0"],
           !.opportunities =
               AppendIf(res.opportunities, has_fb_pixel,
                        Opportunity("meta_ads", "Audit complet Meta Ads")),
           !.issues = issues,
           !.scores = SetScore(res.scores, "meta_ads",
                               IF has_fb_pixel THEN MetaAdsScoreWithPixel
                               ELSE MetaAdsScoreWithoutPixel)]

check_meta_ads_library(res) ==
    LET has_fb_pixel == HasFbPixel(res)
        issues == IF has_fb_pixel THEN <<>>
                  ELSE <<Issue("warning", "meta_ads", "Prezenta pe Meta Ads necunoscuta")>>
    IN  [res EXCEPT
           !.meta_ads = [checked |-> TRUE,
                         active_ads |-> IF has_fb_pixel THEN "detected" ELSE "0"],
           !.opportunities =
               AppendIf(res.opportunities, has_fb_pixel,
                        Opportunity("meta_ads", "Audit complet Meta Ads")),
           !.issues = res.issues \o issues,
           !.scores = SetScore(res.scores, "meta_ads",
                               IF has_fb_pixel THEN MetaAdsScoreWithPixel
                               ELSE MetaAdsScoreWithoutPixel)]


(***************************************************************************)
(* WebsiteAnalyzer.calculate_overall_score                                 *)
(*                                                                         *)
(* The weights are Python floats (IEEE-754 binary64) and the weighted sum  *)
(* is computed in floats: each product and each partial sum is rounded to  *)
(* 53 significant bits, ties to even.  Every float met here is a multiple  *)
(* of 2^-55 below 2^7, so a float x is held exactly as the integer         *)
(* x * 2^55, written in three limbs <<low, middle, high>> of 21 bits.      *)
(***************************************************************************)
LimbBase == 2097152            \* 2^21
FractionBits == 8192           \* 2^13: bit 55 of the integer is bit 13 of the high limb
MantissaLimbBits == 11         \* a high limb of at most 11 bits: at most 53 bits in all

\* the binary64 values of 0.30, 0.35, 0.20 and 0.15, times 2^55
weights == <<
    [k |-> "seo",       w |-> <<419430, 1258291, 2457>>],
    [k |-> "tracking",  w |-> <<838860, 419430, 2867>>],
    [k |-> "technical", w |-> <<1677722, 838860, 1638>>],
    [k |-> "meta_ads",  w |-> <<1258291, 1677721, 1228>>] >>

DefaultScore == 50

RECURSIVE Pow2(_)
Pow2(n) == IF n = 0 THEN 1 ELSE 2 * Pow2(n - 1)

RECURSIVE BitLength(_)
BitLength(n) == IF n = 0 THEN 0 ELSE 1 + BitLength(n \div 2)

\* carry propagation between the limbs
Normalise(l0, l1, l2) ==
    LET t1 == l1 + (l0 \div LimbBase)
    IN  <<l0 % LimbBase, t1 % LimbBase, l2 + (t1 \div LimbBase)>>

\* rounding of an exact result to 53 significant bits, ties to even
RoundToDouble(n) ==
    LET d == BitLength(n[3]) - MantissaLimbBits
    IN  IF d <= 0 THEN n
        ELSE LET unit == Pow2(d)
                 r == n[1] % unit
                 odd == (n[1] \div unit) % 2 = 1
                 up == (2 * r > unit) \/ (2 * r = unit /\ odd)
             IN  Normalise(n[1] - r + (IF up THEN unit ELSE 0), n[2], n[3])

\* int * float
FloatTimesInt(w, i) == RoundToDouble(Normalise(w[1] * i, w[2] * i, w[3] * i))

\* float + float
FloatAdd(a, b) == RoundToDouble(Normalise(a[1] + b[1], a[2] + b[2], a[3] + b[3]))

\* round(x) of a float: nearest integer, ties to even
PyRound(x) ==
    LET q == x[3] \div FractionBits
        f == x[3] % FractionBits
        half == FractionBits \div 2
    IN  IF f > half \/ (f = half /\ (x[2] > 0 \/ x[1] > 0)) THEN q + 1
        ELSE IF f = half /\ q % 2 = 1 THEN q + 1
        ELSE q

\* scores.get(k, 50)
GetScore(scores, k) == IF k \in DOMAIN scores THEN scores[k] ELSE DefaultScore

\* the products scores.get(k, 50) * w, in the order of weights.items()
Products(scores) ==
    [j \in 1..Len(weights) |->
        FloatTimesInt(weights[j].w, GetScore(scores, weights[j].k))]

\* sum() adding the floats from left to right, each partial sum rounded
\* (CPython up to 3.11)
RECURSIVE PlainSum(_, _, _)
PlainSum(terms, j, acc) ==
    IF j > Len(terms) THEN acc
    ELSE PlainSum(terms, j + 1, FloatAdd(acc, terms[j]))

\* sum() with compensated summation (CPython from 3.12): the rounding errors
\* of the partial sums are carried along exactly and added back at the end,
\* which rounds the exact sum of the terms once
RECURSIVE ExactSum(_, _, _)
ExactSum(terms, j, acc) ==
    IF j > Len(terms) THEN acc
    ELSE ExactSum(terms, j + 1,
                  Normalise(acc[1] + terms[j][1], acc[2] + terms[j][2],
                            acc[3] + terms[j][3]))

CompensatedSum(terms) == RoundToDouble(ExactSum(terms, 1, <<0, 0, 0>>))

\* the two ways the interpreter running the analyzer may add floats
FloatSums == {"plain", "compensated"}

\* sum(scores.get(k, 50) * w for k, w in weights.items())
WeightedSum(scores, fsum) ==
    IF fsum = "plain" THEN PlainSum(Products(scores), 1, <<0, 0, 0>>)
    ELSE CompensatedSum(Products(scores))

\* the category scores added up without their weights
calculate_overall_score_unweighted(res, fsum) ==
    [res EXCEPT !.scores =
         SetScore(res.scores, "overall",
                  GetScore(res.scores, "seo") + GetScore(res.scores, "tracking")
                  + GetScore(res.scores, "technical")
                  + GetScore(res.scores, "meta_ads"))]

calculate_overall_score(res, fsum) ==
    IF DOMAIN res.scores = {}
    THEN [res EXCEPT !.scores = SetScore(res.scores, "overall", 0)]
    ELSE [res EXCEPT !.scores =
              SetScore(res.scores, "overall",
                       PyRound(WeightedSum(res.scores, fsum)))]

(***************************************************************************)
(* WebsiteAnalyzer.generate_opportunities                                  *)
(***************************************************************************)
RecognizedPlatforms == {"Merchantpro", "Gomag", "Shopify"}
MinSeoIssues == 2

\* self.results['tracking'].get('google_ads', {}).get('detected')
GoogleAdsDetected(res) ==
    IF "google_ads" \in DOMAIN res.tracking
    THEN res.tracking.google_ads.detected
    ELSE FALSE

\* seo_issues = [i for i in self.results['issues'] if i['category'] == 'seo']
SeoIssuesOf(res) == SelectSeq(res.issues, LAMBDA i : i.category = "seo")

\* the SEO opportunity emitted before the conversion-tracking one
generate_opportunities_seo_first(res) ==
    LET o1 == AppendIf(res.opportunities, Len(SeoIssuesOf(res)) >= MinSeoIssues,
                       Opportunity("seo", "Optimizare SEO On-Page"))
        o2 == AppendIf(o1, ~GoogleAdsDetected(res),
                       Opportunity("google_ads", "Setup Google Ads Conversion Tracking"))
        o3 == AppendIf(o2, res.platform \in RecognizedPlatforms,
                       Opportunity("platform", "Optimizare specifica platformei"))
    IN  [res EXCEPT !.opportunities = o3]

generate_opportunities(res) ==
    LET o1 == AppendIf(res.opportunities, ~GoogleAdsDetected(res),
                       Opportunity("google_ads", "Setup Google Ads Conversion Tracking"))
        o2 == AppendIf(o1, Len(SeoIssuesOf(res)) >= MinSeoIssues,
                       Opportunity("seo", "Optimizare SEO On-Page"))
        o3 == AppendIf(o2, res.platform \in RecognizedPlatforms,
                       Opportunity("platform", "Optimizare specifica platformei"))
    IN  [res EXCEPT !.opportunities = o3]


(***************************************************************************)
(* Documents the model fetches.                                            *)
(***************************************************************************)
\* pieces of markup text; a text is a concatenation of a few of them
Fragments == {
    <<"S","h","o","p","i">>, <<"f","y">>,
    <<"i","M","A","G","E">>,
    <<"c","o","m","p","-">>,
    <<"g","o","m","a","g">>,
    <<"C","o","o","k","i","e">>,
    <<"u","s","e","r","_","d","a","t","a">> }

RECURSIVE FragmentLists(_)
FragmentLists(n) ==
    IF n = 0 THEN {<<>>}
    ELSE LET shorter == FragmentLists(n - 1)
         IN  shorter \cup {Append(l, f) : l \in shorter, f \in Fragments}

Texts(n) == {Concat(l) : l \in FragmentLists(n)}

\* a document without a defect for any rule
PerfectSoup ==
    [title |-> 45, meta_description |-> 200, h1_count |-> 1,
     total_images |-> 0, images_without_alt |-> 0, canonical |-> TRUE,
     og_title |-> TRUE, og_description |-> TRUE, og_image |-> TRUE,
     ld_json_count |-> 1, viewport |-> TRUE, external_scripts |-> 0]

PlainHtml ==
    [text |-> <<>>, gtm |-> TRUE, ga4 |-> TRUE, google_ads |-> TRUE,
     facebook_pixel |-> TRUE,
     fb_events |-> {"Purchase", "AddToCart", "ViewContent"},
     tiktok_pixel |-> FALSE]

TitleValues ==
    {Absent, 0, TitleMinLength - 1, TitleMinLength, TitleMaxLength, TitleMaxLength + 1}
MetaDescriptionValues ==
    {Absent, 0, MetaDescriptionMinLength - 1, MetaDescriptionMinLength}

ImageCounts == {c \in (0..MaxImages) \X (0..MaxImages) : c[2] <= c[1]}

\* the documents analyze_seo is studied on
SeoSoups ==
    {[PerfectSoup EXCEPT !.title = t, !.meta_description = m, !.h1_count = h,
                         !.total_images = n[1], !.images_without_alt = n[2],
                         !.canonical = c, !.og_title = o[1],
                         !.og_description = o[2], !.og_image = o[3],
                         !.ld_json_count = j] :
        t \in TitleValues, m \in MetaDescriptionValues, h \in 0..MaxH1,
        n \in ImageCounts, c \in BOOLEAN,
        o \in BOOLEAN \X BOOLEAN \X BOOLEAN, j \in 0..MaxLdJson}

\* the markups analyze_tracking is studied on
TrackingHtmls ==
    {[text |-> x, gtm |-> g[1], ga4 |-> g[2], google_ads |-> g[3],
      facebook_pixel |-> g[4], fb_events |-> e, tiktok_pixel |-> k] :
        x \in {<<>>, UserData},
        g \in BOOLEAN \X BOOLEAN \X BOOLEAN \X BOOLEAN,
        e \in SUBSET {FbEventNames[j] : j \in 1..Len(FbEventNames)},
        k \in BOOLEAN}

\* the documents a whole run is studied on: every rule at its extremes
RunSoups ==
    {[PerfectSoup EXCEPT !.title = t, !.meta_description = m, !.h1_count = h,
                         !.total_images = n[1], !.images_without_alt = n[2],
                         !.canonical = c, !.og_image = c,
                         !.ld_json_count = IF c THEN 1 ELSE 0,
                         !.viewport = v, !.external_scripts = x] :
        t \in {Absent, 45}, m \in {Absent, 200}, h \in {0, 1},
        n \in {<<0, 0>>, <<1, 1>>}, c \in BOOLEAN,
        v \in BOOLEAN, x \in {0, MaxExternalScripts + 1}}
    \cup
    {[PerfectSoup EXCEPT !.title = t, !.meta_description = m, !.h1_count = h,
                         !.total_images = n[1], !.images_without_alt = n[2]] :
        t \in {TitleMinLength - 1, TitleMaxLength + 1},
        m \in {MetaDescriptionMinLength - 1, 200}, h \in {1, 2},
        n \in {<<0, 0>>, <<3, 1>>}}

\* no signature and no consent word; a Gomag shop; a Magento signature
\* inside a word; a consent word
RunTexts ==
    {<<>>, <<"g","o","m","a","g">>, <<"i","M","A","G","E">>,
     <<"C","o","o","k","i","e">>}

RunHtmls ==
    {[text |-> x, gtm |-> g, ga4 |-> g, google_ads |-> a,
      facebook_pixel |-> f, fb_events |-> e, tiktok_pixel |-> FALSE] :
        x \in RunTexts, g \in BOOLEAN, a \in BOOLEAN, f \in BOOLEAN,
        e \in {{"Purchase", "AddToCart"}, {"Purchase", "AddToCart", "ViewContent"}}}

\* what requests.get / raise_for_status raise when the fetch fails
FetchErrors == {"Timeout", "ConnectionError", "HTTPError"}


(***************************************************************************)
(* WebsiteAnalyzer.run_full_analysis, one action per step.                 *)
(***************************************************************************)
ExampleHost == <<"e","x","a","m","p","l","e",".","r","o">>
HttpScheme == <<"h","t","t","p",":","/","/">>

RunInputs == {ExampleHost, HttpScheme \o ExampleHost}

\* the analyzer as constructed, before run_full_analysis
Init ==
    /\ input \in RunInputs
    /\ url = NormalizeUrl(input)
    /\ html = NoDocument
    /\ soup = NoDocument
    /\ results = InitialResults(url)
    /\ pc = "crawl"
    /\ calls = 0
    /\ response = None

\* the result of crawl() ignored: the run goes on after a failed fetch
CrawlFailsRunContinues ==
    /\ pc = "crawl"
    /\ \E e \in FetchErrors : results' = [results EXCEPT !.error = e]
    /\ pc' = "detect_platform"
    /\ UNCHANGED <<input, url, html, soup, calls, response>>

\* crawl() fails: the exception is caught, the error recorded, and
\* run_full_analysis returns self.results at once
CrawlFails ==
    /\ pc = "crawl"
    /\ \E e \in FetchErrors : results' = [results EXCEPT !.error = e]
    /\ pc' = "returned"
    /\ UNCHANGED <<input, url, html, soup, calls, response>>

\* crawl() succeeds: self.html and self.soup are set
CrawlSucceeds ==
    /\ pc = "crawl"
    /\ html' \in RunHtmls
    /\ soup' \in RunSoups
    /\ pc' = "detect_platform"
    /\ UNCHANGED <<input, url, results, calls, response>>

DetectPlatform ==
    /\ pc = "detect_platform"
    /\ results' = detect_platform(results, html)
    /\ pc' = "analyze_seo"
    /\ UNCHANGED <<input, url, html, soup, calls, response>>

AnalyzeSeo ==
    /\ pc = "analyze_seo"
    /\ results' = analyze_seo(results, soup)
    /\ pc' = "analyze_tracking"
    /\ UNCHANGED <<input, url, html, soup, calls, response>>

AnalyzeTracking ==
    /\ pc = "analyze_tracking"
    /\ results' = analyze_tracking(results, html)
    /\ pc' = "analyze_technical"
    /\ UNCHANGED <<input, url, html, soup, calls, response>>

AnalyzeTechnical ==
    /\ pc = "analyze_technical"
    /\ results' = analyze_technical(results, soup, html, url)
    /\ pc' = "check_meta_ads_library"
    /\ UNCHANGED <<input, url, html, soup, calls, response>>

CheckMetaAdsLibrary ==
    /\ pc = "check_meta_ads_library"
    /\ results' = check_meta_ads_library(results)
    /\ pc' = "calculate_overall_score"
    /\ UNCHANGED <<input, url, html, soup, calls, response>>

CalculateOverallScore ==
    /\ pc = "calculate_overall_score"
    /\ \E fsum \in FloatSums : results' = calculate_overall_score(results, fsum)
    /\ pc' = "generate_opportunities"
    /\ UNCHANGED <<input, url, html, soup, calls, response>>

GenerateOpportunities ==
    /\ pc = "generate_opportunities"
    /\ results' = generate_opportunities(results)
    /\ pc' = "returned"
    /\ UNCHANGED <<input, url, html, soup, calls, response>>

Next ==
    \/ CrawlFails
    \/ CrawlSucceeds
    \/ DetectPlatform
    \/ AnalyzeSeo
    \/ AnalyzeTracking
    \/ AnalyzeTechnical
    \/ CheckMetaAdsLibrary
    \/ CalculateOverallScore
    \/ GenerateOpportunities

Spec == Init /\ [][Next]_vars


(***************************************************************************)
(* WebsiteAnalyzer(url): the constructor applied to an input string.       *)
(***************************************************************************)
UrlParts == {
    <<"h","t","t","p">>, <<"s">>, <<":","/","/">>, <<"f","t","p">>,
    <<"b","i","n",".","o","r","g">>, ExampleHost }

RECURSIVE UrlPartLists(_)
UrlPartLists(n) ==
    IF n = 0 THEN {<<>>}
    ELSE LET shorter == UrlPartLists(n - 1)
         IN  shorter \cup {Append(l, f) : l \in shorter, f \in UrlParts}

UrlInputs == {Concat(l) : l \in UrlPartLists(MaxUrlParts)}

InitUrl ==
    /\ input \in UrlInputs
    /\ url = None
    /\ html = NoDocument
    /\ soup = NoDocument
    /\ results = NoDocument
    /\ pc = "new"
    /\ calls = 0
    /\ response = None

Construct ==
    /\ pc = "new"
    /\ url' = NormalizeUrl(input)
    /\ results' = InitialResults(url')
    /\ pc' = "constructed"
    /\ UNCHANGED <<input, html, soup, calls, response>>

NextUrl == Construct

SpecUrl == InitUrl /\ [][NextUrl]_vars

(***************************************************************************)
(* The methods of an analyzer called on their own, up to MaxCalls times.   *)
(***************************************************************************)
Constructed(h, sp, res) ==
    /\ input = ExampleHost
    /\ url = NormalizeUrl(input)
    /\ html = h
    /\ soup = sp
    /\ results = res
    /\ pc = "method"
    /\ calls = 0
    /\ response = None

\* detect_platform on any markup, also before a fetch (self.html is None)
InitPlatform ==
    \E h \in {[PlainHtml EXCEPT !.text = x] : x \in Texts(MaxFragments)}
             \cup {NoDocument} :
        Constructed(h, NoDocument, InitialResults(NormalizeUrl(ExampleHost)))

DetectPlatformCall ==
    /\ calls < MaxCalls
    /\ results' = detect_platform(results, html)
    /\ calls' = calls + 1
    /\ UNCHANGED <<input, url, html, soup, pc, response>>

NextPlatform == DetectPlatformCall

SpecPlatform == InitPlatform /\ [][NextPlatform]_vars

\* analyze_seo on a fetched document
InitSeo ==
    \E sp \in SeoSoups :
        Constructed(PlainHtml, sp, InitialResults(NormalizeUrl(ExampleHost)))

AnalyzeSeoCall ==
    /\ calls < MaxCalls
    /\ results' = analyze_seo(results, soup)
    /\ calls' = calls + 1
    /\ UNCHANGED <<input, url, html, soup, pc, response>>

NextSeo == AnalyzeSeoCall

SpecSeo == InitSeo /\ [][NextSeo]_vars

\* analyze_tracking on a fetched document
InitTracking ==
    \E h \in TrackingHtmls :
        Constructed(h, PerfectSoup, InitialResults(NormalizeUrl(ExampleHost)))

AnalyzeTrackingCall ==
    /\ calls < MaxCalls
    /\ results' = analyze_tracking(results, html)
    /\ calls' = calls + 1
    /\ UNCHANGED <<input, url, html, soup, pc, response>>

NextTracking == AnalyzeTrackingCall

SpecTracking == InitTracking /\ [][NextTracking]_vars

\* calculate_overall_score on any scores mapping
Categories == {"seo", "tracking", "technical", "meta_ads"}
ScoreSamples == {0, 39, 40, 64, 70, 77, 90, 100}

ScoreMaps ==
    UNION {[present -> ScoreSamples] : present \in SUBSET Categories}

InitScore ==
    \E m \in ScoreMaps :
        Constructed(PlainHtml, PerfectSoup,
                    [InitialResults(NormalizeUrl(ExampleHost)) EXCEPT !.scores = m])

CalculateOverallScoreCall ==
    /\ calls < MaxCalls
    /\ \E fsum \in FloatSums : results' = calculate_overall_score(results, fsum)
    /\ calls' = calls + 1
    /\ UNCHANGED <<input, url, html, soup, pc, response>>

NextScore == CalculateOverallScoreCall

SpecScore == InitScore /\ [][NextScore]_vars

\* check_meta_ads_library: as a step of run_full_analysis, and called on its
\* own on a constructed analyzer, before or after analyze_tracking
MethodPositions ==
    {"method", "analyze_tracking_called", "check_meta_ads_library_called"}

InitMetaAds == Init \/ InitTracking

AnalyzeTrackingMethod ==
    /\ pc \in MethodPositions
    /\ calls < MaxCalls
    /\ results' = analyze_tracking(results, html)
    /\ pc' = "analyze_tracking_called"
    /\ calls' = calls + 1
    /\ UNCHANGED <<input, url, html, soup, response>>

CheckMetaAdsLibraryMethod ==
    /\ pc \in MethodPositions
    /\ calls < MaxCalls
    /\ results' = check_meta_ads_library(results)
    /\ pc' = "check_meta_ads_library_called"
    /\ calls' = calls + 1
    /\ UNCHANGED <<input, url, html, soup, response>>

NextMetaAds ==
    \/ Next
    \/ AnalyzeTrackingMethod
    \/ CheckMetaAdsLibraryMethod

SpecMetaAds == InitMetaAds /\ [][NextMetaAds]_vars

\* the category scores: the whole run, and analyze_seo or analyze_tracking
\* called on their own on a fetched document, up to MaxCalls times
InitSeoAlone ==
    /\ input = ExampleHost
    /\ url = NormalizeUrl(input)
    /\ html = PlainHtml
    /\ soup \in SeoSoups
    /\ results = InitialResults(url)
    /\ pc = "seo_alone"
    /\ calls = 0
    /\ response = None

InitTrackingAlone ==
    /\ input = ExampleHost
    /\ url = NormalizeUrl(input)
    /\ html \in TrackingHtmls
    /\ soup = PerfectSoup
    /\ results = InitialResults(url)
    /\ pc = "tracking_alone"
    /\ calls = 0
    /\ response = None

InitCategories == Init \/ InitSeoAlone \/ InitTrackingAlone

AnalyzeSeoAlone ==
    /\ pc = "seo_alone"
    /\ calls < MaxCalls
    /\ results' = analyze_seo(results, soup)
    /\ calls' = calls + 1
    /\ UNCHANGED <<input, url, html, soup, pc, response>>

AnalyzeTrackingAlone ==
    /\ pc = "tracking_alone"
    /\ calls < MaxCalls
    /\ results' = analyze_tracking(results, html)
    /\ calls' = calls + 1
    /\ UNCHANGED <<input, url, html, soup, pc, response>>

NextCategories ==
    \/ Next
    \/ AnalyzeSeoAlone
    \/ AnalyzeTrackingAlone

SpecCategories == InitCategories /\ [][NextCategories]_vars


(***************************************************************************)
(* api.py: analyze_website, the handler of POST /api/analyze.              *)
(*                                                                         *)
(* A request is what request.get_json() returns: json is "null" for a      *)
(* body that parses to None and "object" for a JSON object; url_kind says  *)
(* what data.get('url') finds: no such key, null, a number or a string.    *)
(***************************************************************************)
ReportIssues == 5

\* a document failing every rule it can
WorstSoup ==
    [title |-> Absent, meta_description |-> Absent, h1_count |-> 0,
     total_images |-> 1, images_without_alt |-> 1, canonical |-> FALSE,
     og_title |-> FALSE, og_description |-> FALSE, og_image |-> FALSE,
     ld_json_count |-> 0, viewport |-> FALSE,
     external_scripts |-> MaxExternalScripts + 1]

ApiSoups == {PerfectSoup, WorstSoup}

Requests ==
    {[json |-> "null", url_kind |-> "absent", url |-> <<>>]}
    \cup {[json |-> "object", url_kind |-> k, url |-> <<>>] :
              k \in {"absent", "null", "number"}}
    \cup {[json |-> "object", url_kind |-> "string", url |-> u] :
              u \in RunInputs \cup {<<>>}}

\* what the fetch of one request does
FetchOutcomes ==
    {[ok |-> FALSE, error |-> e, html |-> NoDocument, soup |-> NoDocument] :
         e \in FetchErrors}
    \cup {[ok |-> TRUE, error |-> None, html |-> h, soup |-> sp] :
              h \in RunHtmls, sp \in ApiSoups}

\* run_full_analysis as a whole, on an analyzer constructed for u
run_full_analysis(u, fetch, fsum) ==
    LET r0 == InitialResults(u)
    IN  IF ~fetch.ok THEN [r0 EXCEPT !.error = fetch.error]
        ELSE LET r1 == detect_platform(r0, fetch.html)
                 r2 == analyze_seo(r1, fetch.soup)
                 r3 == analyze_tracking(r2, fetch.html)
                 r4 == analyze_technical(r3, fetch.soup, fetch.html, u)
                 r5 == check_meta_ads_library(r4)
                 r6 == calculate_overall_score(r5, fsum)
             IN  generate_opportunities(r6)

\* generate_audit_report: the scores shown and the first five issues
generate_audit_report(res) ==
    [platform |-> res.platform,
     has_overall |-> "overall" \in DOMAIN res.scores,
     issues |-> SubSeq(res.issues, 1, Min(ReportIssues, Len(res.issues)))]

\* not url
NoUrl(req) ==
    \/ req.url_kind \in {"absent", "null"}
    \/ req.url_kind = "string" /\ req.url = <<>>

NoUrlStrict(req) == req.url_kind = "absent"

InitApi ==
    /\ input \in Requests
    /\ url = None
    /\ html = NoDocument
    /\ soup = NoDocument
    /\ results = NoDocument
    /\ pc = "request"
    /\ calls = 0
    /\ response = NoDocument

\* data.get('url') on a body that is not an object raises AttributeError,
\* which the handler's except clause answers with a 500
RequestBodyNotAnObject ==
    /\ pc = "request"
    /\ input.json # "object"
    /\ response' = [status |-> 500, body |-> [error |-> "AttributeError"]]
    /\ pc' = "responded"
    /\ UNCHANGED <<input, url, html, soup, results, calls>>

\* if not url: return jsonify({'error': 'URL is required'}), 400
RequestWithoutUrl ==
    /\ pc = "request"
    /\ input.json = "object"
    /\ NoUrl(input)
    /\ response' = [status |-> 400, body |-> [error |-> "URL is required"]]
    /\ pc' = "responded"
    /\ UNCHANGED <<input, url, html, soup, results, calls>>

\* WebsiteAnalyzer(url) with a url that is not a string: url.startswith
\* raises AttributeError in the constructor, answered with a 500
RequestUrlNotAString ==
    /\ pc = "request"
    /\ input.json = "object"
    /\ ~NoUrl(input)
    /\ input.url_kind # "string"
    /\ response' = [status |-> 500, body |-> [error |-> "AttributeError"]]
    /\ pc' = "responded"
    /\ UNCHANGED <<input, url, html, soup, results, calls>>

\* the analysis runs and its results, with the report, are returned
RequestAnalyzed ==
    /\ pc = "request"
    /\ input.json = "object"
    /\ ~NoUrl(input)
    /\ input.url_kind = "string"
    /\ url' = NormalizeUrl(input.url)
    /\ \E fetch \in FetchOutcomes, fsum \in FloatSums :
         /\ html' = fetch.html
         /\ soup' = fetch.soup
         /\ LET res == run_full_analysis(url', fetch, fsum)
            IN  results' = [report |-> generate_audit_report(res)] @@ res
    /\ response' = [status |-> 200, body |-> results']
    /\ pc' = "responded"
    /\ UNCHANGED <<input, calls>>

NextApi ==
    \/ RequestBodyNotAnObject
    \/ RequestWithoutUrl
    \/ RequestUrlNotAString
    \/ RequestAnalyzed

SpecApi == InitApi /\ [][NextApi]_vars


(***************************************************************************)
(* Properties.                                                             *)
(***************************************************************************)
IsPrefix(s, t) == Len(s) <= Len(t) /\ SubSeq(t, 1, Len(s)) = s

\* what a step appended to the issues
Appended == SubSeq(results'.issues, Len(results.issues) + 1, Len(results'.issues))

CountOf(issues, type, category) ==
    Cardinality({i \in 1..Len(issues) :
                     issues[i].type = type /\ issues[i].category = category})

\* a run that fetched its document and went through every step
Completed == pc = "returned" /\ results.error = None

ScoreKeys == {"seo", "tracking", "technical", "meta_ads", "overall"}

\* C1: after a run on a fetched document, the four category scores and the
\* overall score are all present and each is an integer between 0 and 100.
C1_ScoresInRange ==
    Completed =>
        \A k \in ScoreKeys :
            /\ k \in DOMAIN results.scores
            /\ results.scores[k] \in 0..100

\* a completed run on the worst document: the lowest category scores
C1_Witness ==
    /\ Completed
    /\ results.scores.seo = 16
    /\ results.scores.tracking = 28
    /\ results.scores.technical = 54
    /\ results.scores.overall \in 0..100


\* the nearest integer to n / 100, a tie going to the even integer
RoundHundredths(n) ==
    LET q == n \div 100
        r == n % 100
    IN  IF r < 50 THEN q
        ELSE IF r > 50 THEN q + 1
        ELSE IF q % 2 = 0 THEN q ELSE q + 1

\* 100 * (0.30*seo + 0.35*tracking + 0.20*technical + 0.15*meta_ads), a
\* category absent from the mapping counting as 50
WeightedHundredths(scores) ==
    30 * GetScore(scores, "seo") + 35 * GetScore(scores, "tracking")
    + 20 * GetScore(scores, "technical") + 15 * GetScore(scores, "meta_ads")

\* C2: calculate_overall_score sets overall to
\* round(0.30*seo + 0.35*tracking + 0.20*technical + 0.15*meta_ads), an absent
\* category counting as 50, and to 0 when the mapping holds no category score.
C2_OverallIsWeightedRound ==
    [][calls' = calls + 1 =>
          results'.scores["overall"] =
              IF DOMAIN results.scores \cap Categories = {} THEN 0
              ELSE RoundHundredths(WeightedHundredths(results.scores))]_vars

\* all four trackers detected and exactly three of the five events found
AllDetectedThreeEvents ==
    /\ html.gtm /\ html.ga4 /\ html.google_ads /\ html.facebook_pixel
    /\ Cardinality(html.fb_events) = 3

\* C3 as stated: with GTM, GA4, Google Ads and the Facebook Pixel detected and
\* exactly 3 of the 5 events found, analyze_tracking records no error and one
\* warning, and the tracking score is 90.
C3_ThreeEventsWarned ==
    [][(calls' = calls + 1 /\ AllDetectedThreeEvents) =>
          /\ CountOf(Appended, "error", "tracking") = 0
          /\ CountOf(Appended, "warning", "tracking") = 1
          /\ results'.scores["tracking"] = 90]_vars

\* C3 as amended: with GTM, GA4, Google Ads and the Facebook Pixel detected and
\* exactly 3 of the 5 events found, analyze_tracking records no error and no
\* warning, and the tracking score is 100.
C3_ThreeEventsClean ==
    [][(calls' = calls + 1 /\ AllDetectedThreeEvents) =>
          /\ CountOf(Appended, "error", "tracking") = 0
          /\ CountOf(Appended, "warning", "tracking") = 0
          /\ Appended = <<>>
          /\ results'.scores["tracking"] = 100]_vars

\* analyze_tracking has run on such a document
C3_Witness ==
    /\ calls >= 1
    /\ AllDetectedThreeEvents
    /\ results.issues = <<>>
    /\ results.scores["tracking"] = 100

\* C4: when the fetch fails, the run returns at once with the error set and
\* everything else as the constructor left it: no scores, issues or
\* opportunities, no platform, no findings, no document.
C4_FetchFailureReturnsAtOnce ==
    results.error # None =>
        /\ pc = "returned"
        /\ results = [InitialResults(url) EXCEPT !.error = results.error]
        /\ DOMAIN results.scores = {}
        /\ results.issues = <<>>
        /\ results.opportunities = <<>>
        /\ results.platform = None
        /\ IsNoDocument(html) /\ IsNoDocument(soup)

\* a run whose fetch timed out has returned
C4_Witness ==
    /\ pc = "returned"
    /\ results.error = "Timeout"
    /\ results.url = url


\* the table order the platforms are tried in
PlatformOrder ==
    <<"Merchantpro", "Gomag", "Shopify", "Woocommerce", "Magento",
      "Prestashop", "Opencart", "Vtex">>

\* the platforms having a signature somewhere in the text
PlatformsFound(text) ==
    {i \in 1..Len(platforms) :
        \E j \in 1..Len(platforms[i].signatures) :
            IsSubstring(platforms[i].signatures[j], text)}

\* the first position at which sub occurs in s
FirstOccurrence(sub, s) ==
    CHOOSE i \in 1..Len(s) :
        /\ i + Len(sub) - 1 <= Len(s)
        /\ SubSeq(s, i, i + Len(sub) - 1) = sub
        /\ \A k \in 1..(i - 1) : SubSeq(s, k, k + Len(sub) - 1) # sub

\* C5: detect_platform records the display name of the first platform in
\* table order having a signature in the lower-cased markup, wherever the
\* signatures lie in the text, and "Unknown" when none has; a second call on
\* the same markup records the same name.
C5_FirstPlatformInTableOrder ==
    calls >= 1 =>
        LET found == PlatformsFound(HtmlLower(html))
        IN  IF found = {} THEN results.platform = "Unknown"
            ELSE \E i \in found :
                    /\ \A k \in found : i <= k
                    /\ results.platform = PlatformOrder[i]

Mage == <<"m","a","g","e">>
Gomag == <<"g","o","m","a","g">>

\* detected twice on a text where a Magento signature comes before the Gomag
\* one: Gomag, earlier in the table, is recorded
C5_Witness ==
    /\ calls = 2
    /\ ~IsNoDocument(html)
    /\ IsSubstring(Mage, HtmlLower(html))
    /\ IsSubstring(Gomag, HtmlLower(html))
    /\ FirstOccurrence(Mage, HtmlLower(html)) < FirstOccurrence(Gomag, HtmlLower(html))
    /\ results.platform = "Gomag"

\* C6: when Google Ads conversion tracking was not detected, at least two SEO
\* issues were recorded and the platform is Merchantpro, Gomag or Shopify,
\* generate_opportunities appends exactly three opportunities, in the order
\* conversion tracking, on-page SEO, platform.
C6_ThreeOpportunitiesInOrder ==
    [][(/\ pc = "generate_opportunities"
        /\ pc' = "returned"
        /\ ~results.tracking.google_ads.detected
        /\ CountOf(results.issues, "error", "seo")
             + CountOf(results.issues, "warning", "seo") >= 2
        /\ results.platform \in {"Merchantpro", "Gomag", "Shopify"})
       => LET before == results.opportunities
              after == results'.opportunities
          IN  /\ Len(after) = Len(before) + 3
              /\ SubSeq(after, 1, Len(before)) = before
              /\ after[Len(before) + 1].category = "google_ads"
              /\ after[Len(before) + 2].category = "seo"
              /\ after[Len(before) + 3].category = "platform"]_vars

\* a completed run of that kind with exactly two SEO issues, the Meta-Ads
\* opportunity ahead of the three
C6_Witness ==
    /\ Completed
    /\ ~results.tracking.google_ads.detected
    /\ Len(SeoIssuesOf(results)) = 2
    /\ results.platform = "Gomag"
    /\ Len(results.opportunities) = 4
    /\ results.opportunities[1].category = "meta_ads"
    /\ results.opportunities[4].category = "platform"

\* C7: through every step of a run the issues only grow by appending: the
\* sequence before a step is a prefix of the sequence after it.
C7_IssuesOnlyAppended ==
    [][IsPrefix(results.issues, results'.issues)]_vars

\* a completed run in which every analyzer appended issues
C7_Witness ==
    /\ Completed
    /\ Len(results.issues) = 16
    /\ results.issues[1].category = "seo"
    /\ results.issues[16].category = "meta_ads"


Letters ==
    {"a","b","c","d","e","f","g","h","i","j","k","l","m",
     "n","o","p","q","r","s","t","u","v","w","x","y","z"}

SchemeSeparator == <<":","/","/">>

\* u begins with a scheme: a letter, then letters or dots, then ://
HasScheme(u) ==
    \E i \in 2..Len(u) :
        /\ i + 2 <= Len(u)
        /\ SubSeq(u, i, i + 2) = SchemeSeparator
        /\ u[1] \in Letters
        /\ \A k \in 1..(i - 1) : u[k] \in Letters \cup {"."}

\* C8: an input URL without a scheme becomes the input with https://
\* prepended; an input with an http:// or https:// scheme is kept unchanged.
C8_SchemePrependedWhenMissing ==
    pc = "constructed" =>
        /\ ~HasScheme(input) => url = HttpsScheme \o input
        /\ (StartsWith(input, HttpScheme) \/ StartsWith(input, HttpsScheme))
               => url = input

\* none of the seven SEO rules is triggered by the document
NoSeoRuleTriggered(sp) ==
    /\ sp.title # Absent /\ sp.title >= 30 /\ sp.title <= 60
    /\ sp.meta_description # Absent /\ sp.meta_description >= 120
    /\ sp.h1_count = 1
    /\ sp.images_without_alt = 0
    /\ sp.canonical
    /\ sp.og_title /\ sp.og_description /\ sp.og_image
    /\ sp.ld_json_count >= 1

\* C9: after analyze_seo, scores.seo = max(0, min(100, 100 - 15*E - 8*W)) for
\* the E SEO errors and W SEO warnings this call appended; a document that
\* triggers none of the seven rules gets no issue and the score 100.
C9_SeoScoreFromAppendedIssues ==
    [][calls' = calls + 1 =>
          LET E == CountOf(Appended, "error", "seo")
              W == CountOf(Appended, "warning", "seo")
          IN  /\ results'.scores["seo"] = Max(0, Min(100, 100 - 15 * E - 8 * W))
              /\ E + W = Len(Appended)
              /\ NoSeoRuleTriggered(soup) =>
                     Appended = <<>> /\ results'.scores["seo"] = 100]_vars

\* analyze_seo has run on a document at the upper title bound that triggers
\* no rule
C9_Witness ==
    /\ calls = 1
    /\ NoSeoRuleTriggered(soup)
    /\ soup.title = 60
    /\ results.issues = <<>>
    /\ results.scores["seo"] = 100

\* the request carries no URL: no JSON object, no url key, or a null or
\* empty url
CarriesNoUrl(req) ==
    \/ req.json # "object"
    \/ req.url_kind \in {"absent", "null"}
    \/ req.url_kind = "string" /\ req.url = <<>>

\* C10: a request without a URL is answered 400 with an error payload and no
\* analyzer is created; a failure while handling a request is answered 500
\* with an error payload; a failed fetch is not a failure of the handler: the
\* result is returned, carrying the error.
C10_BoundaryErrors ==
    pc = "responded" =>
        /\ CarriesNoUrl(input) =>
               /\ response.status = 400
               /\ "error" \in DOMAIN response.body
               /\ url = None /\ IsNoDocument(results)
        /\ response.status \in {200, 400, 500}
        /\ response.status = 500 => DOMAIN response.body = {"error"}
        /\ (~IsNoDocument(results) /\ results.error # None) =>
               /\ response.status = 200
               /\ response.body = results
               /\ response.body.error \in FetchErrors

FacebookTitles == {"Facebook Pixel nedetectat", "Facebook Pixel incomplet configurat"}

\* the trackers among GTM, GA4 and Google Ads that the markup lacks
GoogleTrackersMissing ==
    Cardinality({k \in {"gtm", "ga4", "google_ads"} : ~html[k]})

\* C11: a call of analyze_tracking appends for the Facebook Pixel exactly one
\* of: the error when no pixel is detected, the warning when the pixel is
\* detected with fewer than 3 of the 5 events, nothing when it is detected
\* with 3 or more.  Nothing else is appended beyond the three Google errors,
\* and the score is 100 less 18 per error and 10 per warning of these rules:
\* the TikTok pixel and the enhanced-conversions finding add no issue and do
\* not change the score.
C11_FacebookRuleOneOfThree ==
    [][calls' = calls + 1 =>
          LET fb == SelectSeq(Appended, LAMBDA i : i.title \in FacebookTitles)
              noPixel == ~html.facebook_pixel
              fewEvents == html.facebook_pixel
                           /\ Cardinality(html.fb_events) < FbMinEvents
              errors == GoogleTrackersMissing + (IF noPixel THEN 1 ELSE 0)
              warnings == IF fewEvents THEN 1 ELSE 0
          IN  /\ noPixel =>
                    fb = <<Issue("error", "tracking", "Facebook Pixel nedetectat")>>
              /\ fewEvents =>
                    fb = <<Issue("warning", "tracking",
                                 "Facebook Pixel incomplet configurat")>>
              /\ (~noPixel /\ ~fewEvents) => fb = <<>>
              /\ Len(Appended) = errors + warnings
              /\ CountOf(Appended, "error", "tracking") = errors
              /\ CountOf(Appended, "warning", "tracking") = warnings
              /\ results'.scores["tracking"] = 100 - 18 * errors - 10 * warnings
              /\ results'.tracking.tiktok_pixel.detected = html.tiktok_pixel
              /\ results'.tracking.enhanced_conversions = EnhancedConversions(html)]_vars

\* analyze_tracking has run on a markup with a TikTok pixel and an
\* enhanced-conversions marker, whose Facebook Pixel has two events
C11_Witness ==
    /\ calls >= 1
    /\ html.tiktok_pixel
    /\ results.tracking.tiktok_pixel.detected
    /\ results.tracking.enhanced_conversions
    /\ html.gtm /\ html.ga4 /\ html.google_ads /\ html.facebook_pixel
    /\ Cardinality(html.fb_events) = 2
    /\ results.issues[1] =
           Issue("warning", "tracking", "Facebook Pixel incomplet configurat")
    /\ results.scores["tracking"] = 90

\* a step that is one execution of check_meta_ads_library
MetaAdsStep ==
    \/ pc = "check_meta_ads_library" /\ pc' = "calculate_overall_score"
    \/ pc' = "check_meta_ads_library_called" /\ calls' = calls + 1

\* the Facebook-Pixel detection flag of the tracking findings; false when
\* there are no findings
PixelFlag ==
    /\ DOMAIN results.tracking # {}
    /\ results.tracking.facebook_pixel.detected

\* what check_meta_ads_library never touches
MetaAdsFrame ==
    /\ results'.url = results.url
    /\ results'.platform = results.platform
    /\ results'.seo = results.seo
    /\ results'.technical = results.technical
    /\ results'.tracking = results.tracking
    /\ results'.error = results.error
    /\ DOMAIN results'.scores = DOMAIN results.scores \cup {"meta_ads"}
    /\ \A k \in DOMAIN results.scores \ {"meta_ads"} :
           results'.scores[k] = results.scores[k]

PixelErrorReported ==
    \E i \in 1..Len(results.issues) :
        results.issues[i] = Issue("error", "tracking", "Facebook Pixel nedetectat")

\* C12: check_meta_ads_library is decided by the Facebook-Pixel detection
\* flag alone.  With the flag true it appends exactly one opportunity, of
\* category meta_ads, no issue, and sets scores.meta_ads to 70; with the flag
\* false or no tracking findings it appends exactly one warning of category
\* meta_ads, no opportunity, and sets scores.meta_ads to 40; it changes
\* nothing else.  And in every completed run scores.meta_ads is 40 exactly
\* when the issues hold the 'Facebook Pixel nedetectat' error.
C12_MetaAdsFromPixelFlagOnly ==
    /\ [][MetaAdsStep =>
             /\ MetaAdsFrame
             /\ PixelFlag =>
                   /\ Len(results'.opportunities) = Len(results.opportunities) + 1
                   /\ IsPrefix(results.opportunities, results'.opportunities)
                   /\ results'.opportunities[Len(results'.opportunities)].category
                          = "meta_ads"
                   /\ results'.issues = results.issues
                   /\ results'.scores["meta_ads"] = 70
             /\ ~PixelFlag =>
                   /\ IsPrefix(results.issues, results'.issues)
                   /\ Len(Appended) = 1
                   /\ Appended[1].type = "warning"
                   /\ Appended[1].category = "meta_ads"
                   /\ results'.opportunities = results.opportunities
                   /\ results'.scores["meta_ads"] = 40]_vars
    /\ [](Completed => (results.scores["meta_ads"] = 40 <=> PixelErrorReported))

\* check_meta_ads_library was called on an analyzer without tracking findings
C12_Witness ==
    /\ pc = "check_meta_ads_library_called"
    /\ calls = 1
    /\ DOMAIN results.tracking = {}
    /\ Len(results.issues) = 1
    /\ results.issues[1].category = "meta_ads"
    /\ results.opportunities = <<>>
    /\ results.scores["meta_ads"] = 40

\* the analyzers in the order run_full_analysis calls them
IssueCategoryRank ==
    [seo |-> 1, tracking |-> 2, technical |-> 3, meta_ads |-> 4]

\* the producers of opportunities in the order they append
OpportunityCategoryRank ==
    [meta_ads |-> 1, google_ads |-> 2, seo |-> 3, platform |-> 4]

\* C13: in the result of a completed run the issues are grouped by category
\* in the order seo, tracking, technical, meta_ads, with at most one meta_ads
\* issue; every issue's category is one of these four and its severity is
\* error or warning.  The opportunities hold the meta_ads opportunity first,
\* if any, then those of generate_opportunities in the order
\* conversion tracking, SEO, platform, each at most once.
C13_IssuesGroupedInPipelineOrder ==
    Completed =>
        LET issues == results.issues
            opps == results.opportunities
        IN  /\ \A i \in 1..Len(issues) :
                   /\ issues[i].category \in DOMAIN IssueCategoryRank
                   /\ issues[i].type \in {"error", "warning"}
            /\ \A i, j \in 1..Len(issues) :
                   i < j => IssueCategoryRank[issues[i].category]
                               <= IssueCategoryRank[issues[j].category]
            /\ Cardinality({i \in 1..Len(issues) :
                                issues[i].category = "meta_ads"}) <= 1
            /\ \A i \in 1..Len(opps) :
                   opps[i].category \in DOMAIN OpportunityCategoryRank
            /\ \A i, j \in 1..Len(opps) :
                   i < j => OpportunityCategoryRank[opps[i].category]
                               < OpportunityCategoryRank[opps[j].category]

\* a completed run whose issues come from the three analyzers and from the
\* heuristic in turn, both severities among them
C13_Witness ==
    /\ Completed
    /\ \A c \in DOMAIN IssueCategoryRank :
           \E i \in 1..Len(results.issues) : results.issues[i].category = c
    /\ \A t \in {"error", "warning"} :
           \E i \in 1..Len(results.issues) : results.issues[i].type = t
    /\ Len(results.issues) >= 8
    /\ Len(results.opportunities) = 3

\* steps that are one execution of an analyzer
SeoStep ==
    \/ pc = "analyze_seo" /\ pc' = "analyze_tracking"
    \/ pc = "seo_alone" /\ calls' = calls + 1

TrackingStep ==
    \/ pc = "analyze_tracking" /\ pc' = "analyze_technical"
    \/ pc = "tracking_alone" /\ calls' = calls + 1

TechnicalStep == pc = "analyze_technical" /\ pc' = "check_meta_ads_library"

Errors(category) == CountOf(Appended, "error", category)
Warnings(category) == CountOf(Appended, "warning", category)

\* the step appended the given tracking issue
AppendedTitle(title) ==
    \E i \in 1..Len(Appended) : Appended[i].title = title

\* tracking: at most 4 errors, the Facebook error and warning exclusive, and
\* the score is the unclamped 100 - 18 E - 10 W, at least 28
TrackingNeverClamped ==
    TrackingStep =>
        /\ Errors("tracking") <= 4
        /\ ~(AppendedTitle("Facebook Pixel nedetectat")
              /\ AppendedTitle("Facebook Pixel incomplet configurat"))
        /\ results'.scores["tracking"]
               = 100 - 18 * Errors("tracking") - 10 * Warnings("tracking")
        /\ results'.scores["tracking"] >= 28

\* technical: at most 2 errors and 2 warnings, and the score is the unclamped
\* 100 - 15 E - 8 W, at least 54
TechnicalNeverClamped ==
    TechnicalStep =>
        /\ Errors("technical") <= 2
        /\ Warnings("technical") <= 2
        /\ results'.scores["technical"]
               = 100 - 15 * Errors("technical") - 8 * Warnings("technical")
        /\ results'.scores["technical"] >= 54

\* a completed run: meta_ads at most 70 and the overall score within 31..96
OverallWithinRange ==
    Completed =>
        /\ results.scores["meta_ads"] <= 70
        /\ results.scores["overall"] \in 31..96

\* SEO as stated: at most 4 errors and at most 3 warnings, and the score is
\* the unclamped 100 - 15 E - 8 W, at least 16
SeoAtMostThreeWarnings ==
    SeoStep =>
        /\ Errors("seo") <= 4
        /\ Warnings("seo") <= 3
        /\ results'.scores["seo"] = 100 - 15 * Errors("seo") - 8 * Warnings("seo")
        /\ results'.scores["seo"] >= 16

\* SEO as amended: at most 4 errors and at most 7 issues in all, and the
\* score is the unclamped 100 - 15 E - 8 W, at least 16
SeoNeverClamped ==
    SeoStep =>
        /\ Errors("seo") <= 4
        /\ Errors("seo") + Warnings("seo") <= 7
        /\ results'.scores["seo"] = 100 - 15 * Errors("seo") - 8 * Warnings("seo")
        /\ results'.scores["seo"] >= 16

\* C14 as stated: the clamp never changes a category score.  The SEO score is
\* the unclamped 100 - 15 E - 8 W and at least 16, analyze_seo appending at
\* most 4 errors and at most 3 warnings; the tracking score is at least 28;
\* the technical score is at least 54; the overall score of a completed run
\* lies in 31..96.
C14_AtMostThreeSeoWarnings ==
    /\ [][SeoAtMostThreeWarnings /\ TrackingNeverClamped /\ TechnicalNeverClamped]_vars
    /\ []OverallWithinRange

\* C14 as amended: the clamp never changes a category score.  The SEO score
\* is the unclamped 100 - 15 E - 8 W and at least 16, analyze_seo appending
\* at most 4 errors and at most 7 issues in all (one per rule; the four rules
\* that can raise an error raise a warning in the milder case); the tracking
\* score is at least 28; the technical score is at least 54; the overall
\* score of a completed run lies in 31..96.
C14_ClampNeverChangesScore ==
    /\ [][SeoNeverClamped /\ TrackingNeverClamped /\ TechnicalNeverClamped]_vars
    /\ []OverallWithinRange

\* analyze_seo has run on a document that triggers every rule in its milder
\* form: seven warnings, no error
C14_Witness ==
    /\ pc = "seo_alone"
    /\ calls = 1
    /\ Len(results.issues) = 7
    /\ \A i \in 1..7 : results.issues[i].type = "warning"
    /\ results.scores["seo"] = 44

====
